---- MODULE Spec2Model ----
(***************************************************************************)
(* Image Review Backend (app/main.py, app/auth.py, app/models.py,          *)
(* app/db.py) as a state machine.                                          *)
(*                                                                         *)
(* The state is the SQLite database (tables users, test_images,            *)
(* label_submissions), the wall clock, the session tokens handed out so    *)
(* far, and one record of locals per request being handled.  Every         *)
(* round trip of a handler to the database is one atomic step, so the      *)
(* handlers of concurrent requests interleave between their SELECTs and    *)
(* their COMMITs exactly as the threadpool lets them.                      *)
(***************************************************************************)
EXTENDS Integers, Sequences, FiniteSets, TLC

\* ------------------------------------------------------------------ bounds
\* Concurrent request handlers (threadpool workers busy at the same time).
MaxProcs == 2
\* The clock stops advancing after this many ticks.
MaxTime == 5
\* Session lifetime in whole seconds (JWT_EXPIRE_MINUTES * 60 in the code,
\* scaled down so that expiry happens within MaxTime).
JWT_EXPIRE == 1

\* Clock ticks per second: the clock has sub-second resolution
\* (datetime.utcnow() carries microseconds), JWT "exp" has whole seconds.
TicksPerSecond == 2

Procs == 1..MaxProcs
NULL == "NULL"

\* ------------------------------------------------------------- input sets
Subjects == {"sub-1", "sub-2"}
ImageIds == {"IMG_1", "IMG_2"}
Labels == {"cat", "dog"}

VARIABLES
    tables,     \* names of the tables that exist in the storage location
    app,        \* "init" (before startup), "up" (serving), "failed" (startup raised)
    users,      \* rows of table users
    images,     \* rows of table test_images
    subs,       \* rows of table label_submissions
    now,        \* wall clock, in ticks
    issued,     \* the calls of create_jwt so far: [token, at] (token returned, time of the call)
    pc,         \* pc[p]: position of the handler running in worker p
    loc,        \* loc[p]: the handler's local variables
    resp        \* resp[p]: the HTTP response of the last request worker p finished

vars == <<tables, app, users, images, subs, now, issued, pc, loc, resp>>
dbvars == <<tables, users, images, subs>>

\* ---------------------------------------------------------------- helpers
Max(S) == CHOOSE x \in S : \A y \in S : y <= x

\* SQLite INTEGER PRIMARY KEY: a new row gets max(id) + 1, or 1 in an empty table.
NextId(rows) == IF rows = {} THEN 1 ELSE Max({r.id : r \in rows}) + 1

\* scalar_one_or_none() / scalar_one() of a result set: "none", "one" or "many"
\* (MultipleResultsFound).
Scalar(rows) == IF rows = {} THEN "none" ELSE IF Cardinality(rows) = 1 THEN "one" ELSE "many"

TheRow(rows) == CHOOSE r \in rows : TRUE

\* ------------------------------------------------------------ persistence
ModelTables == {"users", "test_images", "label_submissions"}

\* init_db(): Base.metadata.create_all of the Base declared in db.py, whose
\* only model is db.DbInitTest; the Base of models.py is a different registry.
init_db(t) == t \cup {"db_init_tests"}

FieldNames == {"email", "given_name", "family_name", "picture"}

UserRow(id, info) ==
    [id |-> id, sub |-> info.sub, email |-> info.email, given_name |-> info.given_name,
     family_name |-> info.family_name, picture |-> info.picture]

\* select(User).where(User.sub == sub)
UsersBySub(sub) == {u \in users : u.sub = sub}

\* Variant: the users table without its unique constraint on sub.
UserInsertViolates_NoConstraint(sub) == FALSE

\* UNIQUE(users.sub): does inserting a row with this sub violate it?
UserInsertViolates(sub) == \E u \in users : u.sub = sub

\* Variant: the image lookup without its WHERE clause.
ImagesById_AnyImage(image_id) == images

\* select(TestImage).where(TestImage.id == image_id)
ImagesById(image_id) == {i \in images : i.id = image_id}

\* select(LabelSubmission).where(image_id == ..., user_id == ...)
SubmissionsFor(image_id, user_id) ==
    {s \in subs : s.image_id = image_id /\ s.user_id = user_id}

\* Variant: label_submissions without uq_submission_image_user.
SubmissionInsertViolates_NoConstraint(image_id, user_id) == FALSE

\* UNIQUE(image_id, user_id) "uq_submission_image_user"
SubmissionInsertViolates(image_id, user_id) ==
    \E s \in subs : s.image_id = image_id /\ s.user_id = user_id

\* Variant: the anti-join without its negation (EXISTS instead of NOT EXISTS).
Unlabeled_NotNegated(user_id) ==
    {i \in images : \E s \in subs : s.image_id = i.id /\ s.user_id = user_id}

\* The anti-join of get_next_image: images with NO submission by this user.
Unlabeled(user_id) ==
    {i \in images : ~ \E s \in subs : s.image_id = i.id /\ s.user_id = user_id}

\* order_by(TestImage.id): string comparison of the ids.
IdRank(id) == CASE id = "IMG_1" -> 1 [] id = "IMG_2" -> 2 [] OTHER -> 3

\* Variant: descending order.
FirstById_Desc(rows) ==
    IF rows = {} THEN {}
    ELSE {CHOOSE i \in rows : \A j \in rows : IdRank(i.id) >= IdRank(j.id)}

\* .order_by(TestImage.id).limit(1)
FirstById(rows) ==
    IF rows = {} THEN {}
    ELSE {CHOOSE i \in rows : \A j \in rows : IdRank(i.id) <= IdRank(j.id)}

\* --------------------------------------------------------- session tokens
\* A token is what jwt.encode returned ("good" signature), the same with its
\* claims altered by someone without the key ("forged"), or not a JWT at all.
Seconds(t) == t \div TicksPerSecond

Garbage == [sub |-> NULL, exp |-> 0, sig |-> "garbage"]

\* create_jwt: exp = utcnow() + lifetime; jwt.encode stores exp as whole
\* seconds (timegm of the datetime's time tuple drops the microseconds).
create_jwt(user_sub, t) ==
    [sub |-> user_sub, exp |-> Seconds(t) + JWT_EXPIRE, sig |-> "good"]

\* Variant: a token counts as expired from the second of its exp on.
jwt_decode_ExpiredAtExp(token, t) ==
    IF token.sig # "good" THEN "JWTError"
    ELSE IF token.exp <= Seconds(t) THEN "ExpiredSignatureError"
    ELSE "ok"

\* jwt.decode: the signature is verified first, then exp against the clock in
\* whole seconds: expired iff exp < now.
jwt_decode(token, t) ==
    IF token.sig # "good" THEN "JWTError"
    ELSE IF token.exp < Seconds(t) THEN "ExpiredSignatureError"
    ELSE "ok"

\* verify_jwt: the payload, or 401 "Token expired" / 401 "Invalid token".
verify_jwt(token, t) ==
    LET d == jwt_decode(token, t) IN
    IF d = "ExpiredSignatureError"
    THEN [ok |-> FALSE, status |-> 401, detail |-> "Token expired", sub |-> NULL]
    ELSE IF d = "JWTError"
    THEN [ok |-> FALSE, status |-> 401, detail |-> "Invalid token", sub |-> NULL]
    ELSE [ok |-> TRUE, status |-> 200, detail |-> "", sub |-> token.sub]

\* ----------------------------------------------------- Authorization header
\* The header value is a string, modelled as a sequence of parts: a word,
\* a single space, or the text of a token.
Word(w) == [t |-> "word", w |-> w, jwt |-> {}]
Sp == [t |-> "sp", w |-> " ", jwt |-> {}]
Jwt(tok) == [t |-> "jwt", w |-> "", jwt |-> {tok}]

\* str.partition(" "): split at the first space; without one, everything is
\* the head and the tail is empty.
FirstSpace(h) ==
    IF \E i \in 1..Len(h) : h[i].t = "sp"
    THEN CHOOSE i \in 1..Len(h) : h[i].t = "sp" /\ \A j \in 1..(i - 1) : h[j].t # "sp"
    ELSE 0

Partition(h) ==
    LET i == FirstSpace(h) IN
    IF i = 0 THEN [scheme |-> h, token |-> <<>>]
    ELSE [scheme |-> SubSeq(h, 1, i - 1), token |-> SubSeq(h, i + 1, Len(h))]

\* str.lower() of a word
Lower(w) ==
    CASE w = "Bearer" -> "bearer"
      [] w = "BEARER" -> "bearer"
      [] w = "Basic" -> "basic"
      [] OTHER -> w

\* scheme.lower() == "bearer"
IsBearer(scheme) ==
    Len(scheme) = 1 /\ scheme[1].t = "word" /\ Lower(scheme[1].w) = "bearer"

\* The token string handed to verify_jwt: a JWT only if it is exactly the text
\* of one; anything else (a leading space, several parts) does not decode.
TokenOf(token) ==
    IF Len(token) = 1 /\ token[1].t = "jwt" THEN TheRow(token[1].jwt) ELSE Garbage

\* Variant: the header is split but its format is not checked before the
\* token goes to verify_jwt.
get_current_user_payload_NoFormatCheck(hdr, t) ==
    IF hdr = {}
    THEN [ok |-> FALSE, status |-> 422, detail |-> "Field required", sub |-> NULL,
          verified |-> FALSE]
    ELSE LET parts == Partition(TheRow(hdr))
             v == verify_jwt(TokenOf(parts.token), t)
         IN [ok |-> v.ok, status |-> v.status, detail |-> v.detail, sub |-> v.sub,
             verified |-> TRUE]

\* get_current_user_payload, with the request validation FastAPI runs for the
\* required parameter Header(...): a request without the header never reaches
\* the function body and is answered 422.  hdr is {} (no header) or {h}.
\* "verified" records whether verify_jwt was called.
get_current_user_payload(hdr, t) ==
    IF hdr = {}
    THEN [ok |-> FALSE, status |-> 422, detail |-> "Field required", sub |-> NULL,
          verified |-> FALSE]
    ELSE LET parts == Partition(TheRow(hdr)) IN
         IF ~IsBearer(parts.scheme) \/ parts.token = <<>>
         THEN [ok |-> FALSE, status |-> 401, detail |-> "Invalid auth header format",
               sub |-> NULL, verified |-> FALSE]
         ELSE LET v == verify_jwt(TokenOf(parts.token), t) IN
              [ok |-> v.ok, status |-> v.status, detail |-> v.detail, sub |-> v.sub,
               verified |-> TRUE]

\* Tokens a client can put in a header: the ones the backend handed out,
\* copies of them re-targeted or re-dated without the key, and non-tokens.
Forged(tok) ==
    {[sub |-> s, exp |-> tok.exp + MaxTime, sig |-> "forged"] : s \in Subjects}

IssuedTokens == {i.token : i \in issued}

PresentableTokens == IssuedTokens \cup UNION {Forged(tok) : tok \in IssuedTokens} \cup {Garbage}

\* Header values that do not follow "Bearer <token>".
MalformedHeaders(tok) ==
    { <<Word("Basic"), Sp, Jwt(tok)>>,      \* another scheme
      <<Jwt(tok)>>,                         \* no scheme
      <<Word("Bearer")>>,                   \* no token
      <<Word("Bearer"), Sp>>,               \* empty token
      <<>> }                                \* empty header value

\* All header inputs of a protected request: absent, well-formed with any
\* presentable token (scheme in any letter case), or malformed.
Headers ==
    {{}}
    \cup {{<<Word(w), Sp, Jwt(tok)>>} : w \in {"Bearer", "bearer"}, tok \in PresentableTokens}
    \cup {{<<Word("Bearer"), Sp, Sp, Jwt(tok)>>} : tok \in IssuedTokens}
    \cup {{h} : h \in UNION {MalformedHeaders(tok) : tok \in IssuedTokens \cup {Garbage}}}

\* ------------------------------------------------------------------ inputs
\* Claim sets the Google verifier can return for a credential.
Info(sub, email, given, family, picture) ==
    [sub |-> sub, email |-> email, given_name |-> given, family_name |-> family,
     picture |-> picture]

GoogleInfos ==
    {Info(s, "a@example.com", "Ann", "Lee", "pic-1") : s \in Subjects \cup {NULL}}
    \cup {Info(s, "b@example.com", NULL, "Lee", NULL) : s \in Subjects}

NoInfo == Info(NULL, NULL, NULL, NULL, NULL)

\* The credential of a login request: an empty string, one the verifier
\* rejects, or one it accepts with the given claims.
Credentials ==
    {[kind |-> "empty", info |-> NoInfo], [kind |-> "invalid", info |-> NoInfo]}
    \cup {[kind |-> "valid", info |-> i] : i \in GoogleInfos}

\* Bodies of POST /api/labels; "IMG_9" is in no manifest.
RequestImageIds == ImageIds \cup {"IMG_9"}

\* Entries of manifest.json: a JSON object with any of its keys absent (NULL),
\* or a value that is no object at all.
Item(id, url) ==
    [dict |-> TRUE, id |-> id, url |-> url, suggested_label |-> "cat", confidence |-> "0.88"]

NotADict == [dict |-> FALSE, id |-> NULL, url |-> NULL, suggested_label |-> NULL,
             confidence |-> NULL]

Url(id) == IF id = "IMG_1" THEN "https://bucket/IMG_1" ELSE "https://bucket/IMG_2"

\* What requests.get(MANIFEST_URL) and resp.json() can give: an error, or a
\* document whose "images" is one of these lists.
ManifestFetches ==
    { [kind |-> "error", images |-> <<>>],
      [kind |-> "ok", images |-> <<>>],
      [kind |-> "ok", images |-> <<Item("IMG_1", Url("IMG_1"))>>],
      [kind |-> "ok", images |-> <<Item("IMG_2", Url("IMG_2")), Item("IMG_1", Url("IMG_1"))>>],
      [kind |-> "ok", images |-> <<Item("IMG_1", Url("IMG_1")), Item("IMG_2", NULL)>>],
      [kind |-> "ok", images |-> <<Item(NULL, Url("IMG_2")), Item("IMG_2", Url("IMG_2"))>>],
      [kind |-> "ok", images |-> <<Item("IMG_1", Url("IMG_1")), Item("IMG_1", Url("IMG_1"))>>],
      [kind |-> "ok", images |-> <<Item("IMG_1", Url("IMG_1")), NotADict>>] }

\* ------------------------------------------------------- handler plumbing
NoUser == [sub |-> NULL, email |-> NULL, given_name |-> NULL, family_name |-> NULL,
           picture |-> NULL]

NoImage == [id |-> NULL, url |-> NULL, suggested_label |-> NULL, confidence |-> NULL]

\* The JSON of a user / an image in a response body.
UserView(u) ==
    [sub |-> u.sub, email |-> u.email, given_name |-> u.given_name,
     family_name |-> u.family_name, picture |-> u.picture]

ImageView(i) ==
    [id |-> i.id, url |-> i.url, suggested_label |-> i.suggested_label,
     confidence |-> i.confidence]

\* An HTTP response: status, error detail, and the fields of the JSON body
\* the operation returns (the others stay empty).
Response(op, status, detail) ==
    [op |-> op, status |-> status, detail |-> detail, token |-> {}, user |-> NoUser,
     image |-> NoImage, image_id |-> NULL, label |-> NULL]

NoResponse == Response("none", 0, "")

\* A handler's locals.  verified: verify_jwt was called; dbOps: round trips
\* to the database made so far by this request.
Locals0 ==
    [op |-> "none", sub |-> NULL, info |-> NoInfo, user |-> {}, changed |-> {},
     image_id |-> NULL, label |-> NULL, submission |-> {}, verified |-> FALSE,
     dbOps |-> 0]

Free(p) == app = "up" /\ pc[p] \in {"idle", "done"}

\* The handler returns or raises: the response goes out, its locals are gone
\* and the worker is free.  What stays on record of the finished request is
\* whether verify_jwt ran and how many database round trips it made.
Finish(p, l, r) ==
    /\ pc' = [pc EXCEPT ![p] = "done"]
    /\ loc' = [loc EXCEPT ![p] = [Locals0 EXCEPT !.op = l.op, !.verified = l.verified,
                                                 !.dbOps = l.dbOps]]
    /\ resp' = [resp EXCEPT ![p] = r]

\* The handler moves on to its next round trip.
Goto(p, l, where) ==
    /\ pc' = [pc EXCEPT ![p] = where]
    /\ loc' = [loc EXCEPT ![p] = l]
    /\ resp' = [resp EXCEPT ![p] = NoResponse]

Db(l) == [l EXCEPT !.dbOps = l.dbOps + 1]

\* --------------------------------------------------------------- startup
Init ==
    /\ tables \in {{}, ModelTables \cup {"db_init_tests"}}
    /\ app = "init"
    /\ users = {}
    /\ images = {}
    /\ subs = {}
    /\ now = 0
    /\ issued = {}
    /\ pc = [p \in Procs |-> "idle"]
    /\ loc = [p \in Procs |-> Locals0]
    /\ resp = [p \in Procs |-> NoResponse]

\* The rows the seeding loop db.add()s: entries with both id and url.
RECURSIVE SeedRows(_)
SeedRows(items) ==
    IF items = <<>> THEN <<>>
    ELSE LET item == Head(items) IN
         IF item.id = NULL \/ item.url = NULL
         THEN SeedRows(Tail(items))
         ELSE <<ImageView(item)>> \o SeedRows(Tail(items))

\* Outcome of seed_from_manifest_if_needed: "ok" with the rows committed, or
\* "raise" when an exception leaves the function.
seed_from_manifest_if_needed(fetch) ==
    IF images # {} THEN [result |-> "ok", rows |-> {}]
    ELSE IF fetch.kind = "error" THEN [result |-> "ok", rows |-> {}]
    ELSE IF \E i \in 1..Len(fetch.images) : ~fetch.images[i].dict
    THEN [result |-> "raise", rows |-> {}]      \* item.get on a non-dict
    ELSE LET rows == SeedRows(fetch.images) IN
         IF \E i, j \in 1..Len(rows) : i # j /\ rows[i].id = rows[j].id
         THEN [result |-> "raise", rows |-> {}] \* primary key conflict at commit
         ELSE [result |-> "ok", rows |-> {rows[i] : i \in 1..Len(rows)}]

\* startup_event: init_db(), then seeding.  The first statement of seeding
\* queries test_images and raises if the table does not exist.
Startup(fetch) ==
    /\ app = "init"
    /\ tables' = init_db(tables)
    /\ IF "test_images" \notin tables'
       THEN app' = "failed" /\ images' = images
       ELSE LET seed == seed_from_manifest_if_needed(fetch) IN
            /\ app' = IF seed.result = "ok" THEN "up" ELSE "failed"
            /\ images' = images \cup seed.rows
    /\ UNCHANGED <<users, subs, now, issued, pc, loc, resp>>

\* The process is stopped (no request in flight) and can be started again on
\* the same storage.
Shutdown ==
    /\ app = "up"
    /\ \A p \in Procs : pc[p] \in {"idle", "done"}
    /\ app' = "init"
    /\ pc' = [p \in Procs |-> "idle"]
    /\ loc' = [p \in Procs |-> Locals0]
    /\ resp' = [p \in Procs |-> NoResponse]
    /\ UNCHANGED <<tables, users, images, subs, now, issued>>

\* Time passes.
Tick ==
    /\ now < MaxTime
    /\ now' = now + 1
    /\ UNCHANGED <<tables, app, users, images, subs, issued, pc, loc, resp>>

\* ------------------------------------------------ POST /api/auth/google
\* Variant: the comparison without the "val is not None" test.
ChangedFields_NoNoneCheck(user, info) ==
    {f \in FieldNames : user[f] # info[f]}

\* Fields the update branch assigns: the token's value is not None and
\* differs from the loaded row's.
ChangedFields(user, info) ==
    {f \in FieldNames : info[f] # NULL /\ user[f] # info[f]}

\* setattr(user, field, val) for the changed fields.
Patched(user, info, changed) ==
    [f \in DOMAIN user |-> IF f \in changed THEN info[f] ELSE user[f]]

\* Lines 100-116 and the branch at 118/133: validate the credential, verify
\* it, and look the user up by subject.
AuthGoogleBegin(p, cred) ==
    /\ Free(p)
    /\ LET l0 == [Locals0 EXCEPT !.op = "auth_google"]
           R(status, detail) == Response("auth_google", status, detail)
       IN
       IF cred.kind = "empty"
       THEN Finish(p, l0, R(400, "Missing Google credential"))
       ELSE IF cred.kind = "invalid"
       THEN Finish(p, l0, R(401, "Invalid Google credential"))
       ELSE IF cred.info.sub = NULL
       THEN Finish(p, l0, R(401, "Google token missing subject (sub)"))
       ELSE LET found == UsersBySub(cred.info.sub)
                l1 == Db([l0 EXCEPT !.sub = cred.info.sub, !.info = cred.info,
                                    !.user = found])
            IN
            IF Scalar(found) = "many"
            THEN Finish(p, l1, R(500, "Internal Server Error"))
            ELSE IF Scalar(found) = "none"
            THEN Goto(p, l1, "ag_insert")
            ELSE LET changed == ChangedFields(TheRow(found), cred.info) IN
                 IF changed = {}
                 THEN Goto(p, l1, "ag_refresh")
                 ELSE Goto(p, [l1 EXCEPT !.changed = changed], "ag_update")
    /\ UNCHANGED <<tables, app, users, images, subs, now, issued>>

\* Variant: the commit without the except IntegrityError branch: the
\* violation leaves the handler as an unhandled exception.
AuthGoogleInsert_NoCatch(p) ==
    /\ pc[p] = "ag_insert"
    /\ LET l == loc[p] IN
       IF UserInsertViolates(l.sub)
       THEN /\ users' = users
            /\ Finish(p, Db(l), Response("auth_google", 500, "Internal Server Error"))
       ELSE LET row == UserRow(NextId(users), l.info) IN
            /\ users' = users \cup {row}
            /\ Goto(p, Db([l EXCEPT !.user = {row}]), "ag_refresh")
    /\ UNCHANGED <<tables, app, images, subs, now, issued>>

\* Lines 119-131: db.add(user); db.commit().  The INSERT violates
\* UNIQUE(users.sub) when another request created the subject meanwhile:
\* IntegrityError, rollback, and the handler goes on to re-read.
AuthGoogleInsert(p) ==
    /\ pc[p] = "ag_insert"
    /\ LET l == loc[p] IN
       IF UserInsertViolates(l.sub)
       THEN /\ users' = users
            /\ Goto(p, Db(l), "ag_reread")
       ELSE LET row == UserRow(NextId(users), l.info) IN
            /\ users' = users \cup {row}
            /\ Goto(p, Db([l EXCEPT !.user = {row}]), "ag_refresh")
    /\ UNCHANGED <<tables, app, images, subs, now, issued>>

\* Line 132: select(User).where(User.sub == sub)).scalar_one()
AuthGoogleReread(p) ==
    /\ pc[p] = "ag_reread"
    /\ LET found == UsersBySub(loc[p].sub)
           l == Db([loc[p] EXCEPT !.user = found])
       IN
       IF Scalar(found) = "one"
       THEN Goto(p, l, "ag_refresh")
       ELSE Finish(p, l, Response("auth_google", 500, "Internal Server Error"))
    /\ UNCHANGED <<tables, app, users, images, subs, now, issued>>

\* Lines 141-142: db.commit() of the changed attributes: an UPDATE of exactly
\* those columns of the row with the loaded primary key.
AuthGoogleUpdate(p) ==
    /\ pc[p] = "ag_update"
    /\ LET l == loc[p]
           mine == TheRow(l.user)
       IN
       /\ users' = {IF u.id = mine.id THEN Patched(u, l.info, l.changed) ELSE u : u \in users}
       /\ Goto(p, Db([l EXCEPT !.user = {Patched(mine, l.info, l.changed)}]), "ag_refresh")
    /\ UNCHANGED <<tables, app, images, subs, now, issued>>

\* Lines 144-160: db.refresh(user) reloads the row by primary key, create_jwt
\* signs a token for the subject, and the response carries both.
AuthGoogleRefresh(p) ==
    /\ pc[p] = "ag_refresh"
    /\ LET l == Db(loc[p])
           row == {u \in users : u.id = TheRow(loc[p].user).id}
       IN
       IF Scalar(row) # "one"
       THEN /\ Finish(p, l, Response("auth_google", 500, "Internal Server Error"))
            /\ issued' = issued
       ELSE LET token == create_jwt(l.sub, now) IN
            /\ issued' = issued \cup {[token |-> token, at |-> now]}
            /\ Finish(p, [l EXCEPT !.user = row],
                      [Response("auth_google", 200, "") EXCEPT
                          !.token = {token}, !.user = UserView(TheRow(row))])
    /\ UNCHANGED <<tables, app, users, images, subs, now>>

\* ----------------------------------------------------- protected requests
\* The dependency Depends(get_current_user_payload) of me, get_next_image and
\* submit_label runs before the handler body: a rejected request is answered
\* here; otherwise the handler starts with payload["sub"].
Authenticate(p, op, hdr, image_id, label, first) ==
    /\ Free(p)
    /\ LET auth == get_current_user_payload(hdr, now)
           l == [Locals0 EXCEPT !.op = op, !.sub = auth.sub, !.image_id = image_id,
                                !.label = label, !.verified = auth.verified]
       IN
       IF auth.ok
       THEN Goto(p, l, first)
       ELSE Finish(p, l, Response(op, auth.status, auth.detail))
    /\ UNCHANGED <<tables, app, users, images, subs, now, issued>>

\* require_user: the user row of the token's subject, or 401.
require_user(sub) ==
    LET found == UsersBySub(sub) IN
    IF Scalar(found) = "one" THEN [ok |-> TRUE, status |-> 200, detail |-> "", user |-> found]
    ELSE IF Scalar(found) = "none"
    THEN [ok |-> FALSE, status |-> 401, detail |-> "User not found", user |-> {}]
    ELSE [ok |-> FALSE, status |-> 500, detail |-> "Internal Server Error", user |-> {}]

\* GET /api/me
MeBegin(p, hdr) == Authenticate(p, "me", hdr, NULL, NULL, "me_user")

\* Lines 176-185: the same lookup as require_user, then the profile.
Me(p) ==
    /\ pc[p] = "me_user"
    /\ LET r == require_user(loc[p].sub)
           l == Db([loc[p] EXCEPT !.user = r.user])
       IN
       IF r.ok
       THEN Finish(p, l, [Response("me", 200, "") EXCEPT !.user = UserView(TheRow(r.user))])
       ELSE Finish(p, l, Response("me", r.status, r.detail))
    /\ UNCHANGED <<tables, app, users, images, subs, now, issued>>

\* GET /api/images/next
NextImageBegin(p, hdr) == Authenticate(p, "next", hdr, NULL, NULL, "next_user")

\* Line 200: user = require_user(db, payload)
NextImageUser(p) ==
    /\ pc[p] = "next_user"
    /\ LET r == require_user(loc[p].sub)
           l == Db([loc[p] EXCEPT !.user = r.user])
       IN
       IF r.ok THEN Goto(p, l, "next_query")
       ELSE Finish(p, l, Response("next", r.status, r.detail))
    /\ UNCHANGED <<tables, app, users, images, subs, now, issued>>

\* The image get_next_image answers with for this user id: the first image
\* by id without a submission of the user, or the all-null object.
get_next_image(user_id) ==
    LET img == FirstById(Unlabeled(user_id)) IN
    IF img = {} THEN NoImage ELSE ImageView(TheRow(img))

\* Variant: an exhausted image list answered as "not found".
NextImageQuery_404(p) ==
    /\ pc[p] = "next_query"
    /\ LET image == get_next_image(TheRow(loc[p].user).id) IN
       IF image = NoImage
       THEN Finish(p, Db(loc[p]), Response("next", 404, "No more images"))
       ELSE Finish(p, Db(loc[p]), [Response("next", 200, "") EXCEPT !.image = image])
    /\ UNCHANGED <<tables, app, users, images, subs, now, issued>>

\* Lines 203-218: the anti-join query and the response.
NextImageQuery(p) ==
    /\ pc[p] = "next_query"
    /\ Finish(p, Db(loc[p]),
              [Response("next", 200, "") EXCEPT
                  !.image = get_next_image(TheRow(loc[p].user).id)])
    /\ UNCHANGED <<tables, app, users, images, subs, now, issued>>

\* POST /api/labels
SubmitLabelBegin(p, hdr, image_id, label) ==
    Authenticate(p, "submit", hdr, image_id, label, "sl_user")

\* Line 227: user = require_user(db, payload)
SubmitLabelUser(p) ==
    /\ pc[p] = "sl_user"
    /\ LET r == require_user(loc[p].sub)
           l == Db([loc[p] EXCEPT !.user = r.user])
       IN
       IF r.ok THEN Goto(p, l, "sl_image")
       ELSE Finish(p, l, Response("submit", r.status, r.detail))
    /\ UNCHANGED <<tables, app, users, images, subs, now, issued>>

\* Variant: submit_label without the image lookup.
ImageKnown_Unchecked(image_id) == TRUE

\* Does the image lookup of submit_label find the image?
ImageKnown(image_id) == ImagesById(image_id) # {}

\* Lines 229-231: 404 if the image is unknown.
SubmitLabelImage(p) ==
    /\ pc[p] = "sl_image"
    /\ IF ImageKnown(loc[p].image_id)
       THEN Goto(p, Db(loc[p]), "sl_submission")
       ELSE Finish(p, Db(loc[p]), Response("submit", 404, "Image not found"))
    /\ UNCHANGED <<tables, app, users, images, subs, now, issued>>

\* Lines 233-238: the existing submission of (image, user), if any.
SubmitLabelSubmission(p) ==
    /\ pc[p] = "sl_submission"
    /\ LET found == SubmissionsFor(loc[p].image_id, TheRow(loc[p].user).id)
           l == Db([loc[p] EXCEPT !.submission = found])
       IN
       IF Scalar(found) = "many"
       THEN Finish(p, l, Response("submit", 500, "Internal Server Error"))
       ELSE Goto(p, l, "sl_commit")
    /\ UNCHANGED <<tables, app, users, images, subs, now, issued>>

\* Variant: the handler always adds a new row, whether or not one was loaded.
SubmitLabelCommit_AlwaysInsert(p) ==
    /\ pc[p] = "sl_commit"
    /\ LET l == Db(loc[p])
           uid == TheRow(l.user).id
           ok == [Response("submit", 200, "") EXCEPT !.image_id = l.image_id,
                                                     !.label = l.label]
       IN
       IF SubmissionInsertViolates(l.image_id, uid)
       THEN /\ subs' = subs
            /\ Finish(p, l, Response("submit", 500, "Internal Server Error"))
       ELSE /\ subs' = subs \cup {[id |-> NextId(subs), image_id |-> l.image_id,
                                   user_id |-> uid, label |-> l.label]}
            /\ Finish(p, l, ok)
    /\ UNCHANGED <<tables, app, users, images, now, issued>>

\* Variant: the constraint violation is swallowed and the request answered as
\* if its row had been written.
SubmitLabelCommit_SwallowConflict(p) ==
    /\ pc[p] = "sl_commit"
    /\ LET l == Db(loc[p])
           uid == TheRow(l.user).id
           ok == [Response("submit", 200, "") EXCEPT !.image_id = l.image_id,
                                                     !.label = l.label]
       IN
       IF l.submission # {}
       THEN /\ subs' = {IF s.id = TheRow(l.submission).id
                        THEN [s EXCEPT !.label = l.label] ELSE s : s \in subs}
            /\ Finish(p, l, ok)
       ELSE IF SubmissionInsertViolates(l.image_id, uid)
       THEN /\ subs' = subs
            /\ Finish(p, l, ok)
       ELSE /\ subs' = subs \cup {[id |-> NextId(subs), image_id |-> l.image_id,
                                   user_id |-> uid, label |-> l.label]}
            /\ Finish(p, l, ok)
    /\ UNCHANGED <<tables, app, users, images, now, issued>>

\* Variant: the label assigned to every row of the image, whoever its user.
SubmitLabelCommit_LabelsWholeImage(p) ==
    /\ pc[p] = "sl_commit"
    /\ LET l == Db(loc[p])
           uid == TheRow(l.user).id
           ok == [Response("submit", 200, "") EXCEPT !.image_id = l.image_id,
                                                     !.label = l.label]
       IN
       IF l.submission # {}
       THEN /\ subs' = {IF s.image_id = l.image_id
                        THEN [s EXCEPT !.label = l.label] ELSE s : s \in subs}
            /\ Finish(p, l, ok)
       ELSE IF SubmissionInsertViolates(l.image_id, uid)
       THEN /\ subs' = subs
            /\ Finish(p, l, Response("submit", 500, "Internal Server Error"))
       ELSE /\ subs' = subs \cup {[id |-> NextId(subs), image_id |-> l.image_id,
                                   user_id |-> uid, label |-> l.label]}
            /\ Finish(p, l, ok)
    /\ UNCHANGED <<tables, app, users, images, now, issued>>

\* Variant: the handler returns without db.commit(); the session is closed
\* and nothing is written.
SubmitLabelCommit_NoCommit(p) ==
    /\ pc[p] = "sl_commit"
    /\ LET l == Db(loc[p])
           ok == [Response("submit", 200, "") EXCEPT !.image_id = l.image_id,
                                                     !.label = l.label]
       IN
       /\ subs' = subs
       /\ Finish(p, l, ok)
    /\ UNCHANGED <<tables, app, users, images, now, issued>>

\* Lines 240-247: assign the label to the loaded row, or add a new row, and
\* commit.  The INSERT fails on UNIQUE(image_id, user_id) when another request
\* inserted the pair meanwhile; nothing catches the IntegrityError, the session
\* is closed without a commit and the request is answered 500.
SubmitLabelCommit(p) ==
    /\ pc[p] = "sl_commit"
    /\ LET l == Db(loc[p])
           uid == TheRow(l.user).id
           ok == [Response("submit", 200, "") EXCEPT !.image_id = l.image_id,
                                                     !.label = l.label]
       IN
       IF l.submission # {}
       THEN /\ subs' = {IF s.id = TheRow(l.submission).id
                        THEN [s EXCEPT !.label = l.label] ELSE s : s \in subs}
            /\ Finish(p, l, ok)
       ELSE IF SubmissionInsertViolates(l.image_id, uid)
       THEN /\ subs' = subs
            /\ Finish(p, l, Response("submit", 500, "Internal Server Error"))
       ELSE /\ subs' = subs \cup {[id |-> NextId(subs), image_id |-> l.image_id,
                                   user_id |-> uid, label |-> l.label]}
            /\ Finish(p, l, ok)
    /\ UNCHANGED <<tables, app, users, images, now, issued>>

\* ------------------------------------------------------------ the system
\* The whole backend: every operation, every worker, every input.
Next ==
    \/ \E fetch \in ManifestFetches : Startup(fetch)
    \/ Shutdown
    \/ Tick
    \/ \E p \in Procs, cred \in Credentials : AuthGoogleBegin(p, cred)
    \/ \E p \in Procs : AuthGoogleInsert(p)
    \/ \E p \in Procs : AuthGoogleReread(p)
    \/ \E p \in Procs : AuthGoogleUpdate(p)
    \/ \E p \in Procs : AuthGoogleRefresh(p)
    \/ \E p \in Procs, hdr \in Headers : MeBegin(p, hdr)
    \/ \E p \in Procs : Me(p)
    \/ \E p \in Procs, hdr \in Headers : NextImageBegin(p, hdr)
    \/ \E p \in Procs : NextImageUser(p)
    \/ \E p \in Procs : NextImageQuery(p)
    \/ \E p \in Procs, hdr \in Headers, image_id \in RequestImageIds, label \in Labels :
          SubmitLabelBegin(p, hdr, image_id, label)
    \/ \E p \in Procs : SubmitLabelUser(p)
    \/ \E p \in Procs : SubmitLabelImage(p)
    \/ \E p \in Procs : SubmitLabelSubmission(p)
    \/ \E p \in Procs : SubmitLabelCommit(p)

Spec == Init /\ [][Next]_vars

\* The specifications below are the backend in a narrower environment (fewer
\* workers, clients or inputs); each behaviour of one of them is a behaviour of
\* Spec.

\* Headers of well-behaved clients: "Bearer <token>" with a token the backend
\* handed out.
SessionHeaders == {{<<Word("Bearer"), Sp, Jwt(tok)>>} : tok \in IssuedTokens}

\* One credential per subject, with a full profile.
FullProfileCredentials ==
    {c \in Credentials : c.kind = "valid" /\ c.info.sub # NULL /\ c.info.given_name # NULL}

\* Every credential, the second subject with its full profile only.
LoginCredentials == {c \in Credentials : c.info.sub = "sub-2" => c.info.given_name # NULL}

\* The login exchange alone: concurrent logins of all workers.
NextLogin ==
    \/ \E fetch \in {f \in ManifestFetches : f.kind = "error"} : Startup(fetch)
    \/ \E p \in Procs, cred \in LoginCredentials : AuthGoogleBegin(p, cred)
    \/ \E p \in Procs : AuthGoogleInsert(p)
    \/ \E p \in Procs : AuthGoogleReread(p)
    \/ \E p \in Procs : AuthGoogleUpdate(p)
    \/ \E p \in Procs : AuthGoogleRefresh(p)

SpecLogin == Init /\ [][NextLogin]_vars

\* Sessions over time: one worker, one subject, every header a client can
\* send, and the clock.  (With one worker and one profile per subject the re-read and the
\* update of the login exchange are never enabled.)
NextSession ==
    \/ \E fetch \in {f \in ManifestFetches : Len(f.images) = 1} : Startup(fetch)
    \/ Tick
    \/ \E cred \in {c \in FullProfileCredentials : c.info.sub = "sub-1"} : AuthGoogleBegin(1, cred)
    \/ AuthGoogleInsert(1)
    \/ AuthGoogleRefresh(1)
    \/ \E hdr \in Headers : MeBegin(1, hdr)
    \/ Me(1)
    \/ \E hdr \in Headers : NextImageBegin(1, hdr)
    \/ NextImageUser(1)
    \/ NextImageQuery(1)
    \/ \E hdr \in Headers, image_id \in RequestImageIds : SubmitLabelBegin(1, hdr, image_id, "cat")
    \/ SubmitLabelUser(1)
    \/ SubmitLabelImage(1)
    \/ SubmitLabelSubmission(1)
    \/ SubmitLabelCommit(1)

SpecSession == Init /\ [][NextSession]_vars

\* The labeling workflow, one request at a time: two users, every manifest,
\* every label body; restarts included.
NextLabel ==
    \/ \E fetch \in ManifestFetches : Startup(fetch)
    \/ Shutdown
    \/ \E cred \in FullProfileCredentials : AuthGoogleBegin(1, cred)
    \/ AuthGoogleInsert(1)
    \/ AuthGoogleRefresh(1)
    \/ \E hdr \in SessionHeaders : NextImageBegin(1, hdr)
    \/ NextImageUser(1)
    \/ NextImageQuery(1)
    \/ \E hdr \in SessionHeaders, image_id \in RequestImageIds, label \in Labels :
          SubmitLabelBegin(1, hdr, image_id, label)
    \/ SubmitLabelUser(1)
    \/ SubmitLabelImage(1)
    \/ SubmitLabelSubmission(1)
    \/ SubmitLabelCommit(1)

SpecLabel == Init /\ [][NextLabel]_vars

\* Concurrent labeling by one user: the requests of all workers interleave.
NextRace ==
    \/ \E fetch \in ManifestFetches : Startup(fetch)
    \/ \E cred \in {c \in FullProfileCredentials : c.info.sub = "sub-1"} : AuthGoogleBegin(1, cred)
    \/ AuthGoogleInsert(1)
    \/ AuthGoogleRefresh(1)
    \/ \E p \in Procs, hdr \in SessionHeaders : NextImageBegin(p, hdr)
    \/ \E p \in Procs : NextImageUser(p)
    \/ \E p \in Procs : NextImageQuery(p)
    \/ \E p \in Procs, hdr \in SessionHeaders, image_id \in RequestImageIds, label \in Labels :
          SubmitLabelBegin(p, hdr, image_id, label)
    \/ \E p \in Procs : SubmitLabelUser(p)
    \/ \E p \in Procs : SubmitLabelImage(p)
    \/ \E p \in Procs : SubmitLabelSubmission(p)
    \/ \E p \in Procs : SubmitLabelCommit(p)

SpecRace == Init /\ [][NextRace]_vars

\* Profiles Google can report for the first subject: every attribute present
\* or absent, and two addresses; the second subject has one profile.
ProfileInfos ==
    {Info("sub-1", e, g, f, pic) : e \in {"a@example.com", "b@example.com", NULL},
                                   g \in {"Ann", NULL}, f \in {"Lee", NULL},
                                   pic \in {"pic-1", NULL}}
    \cup {Info("sub-2", "a@example.com", "Ann", "Lee", "pic-1")}

ProfileCredentials == {[kind |-> "valid", info |-> i] : i \in ProfileInfos}

\* Repeated logins, one request at a time, with changing profiles.  (With one
\* worker the insert never conflicts, so the re-read is never enabled.)
NextProfile ==
    \/ \E fetch \in {f \in ManifestFetches : f.kind = "error"} : Startup(fetch)
    \/ \E cred \in ProfileCredentials : AuthGoogleBegin(1, cred)
    \/ AuthGoogleInsert(1)
    \/ AuthGoogleUpdate(1)
    \/ AuthGoogleRefresh(1)

SpecProfile == Init /\ [][NextProfile]_vars

\* The labeling client: it asks for the next image once it is signed in or
\* its last label was accepted ...
ClientNextImage(hdr) ==
    /\ pc[1] = "done" /\ resp[1].status = 200
    /\ resp[1].op \in {"auth_google", "submit"}
    /\ NextImageBegin(1, hdr)

\* ... and submits a label for the image it was given, unless that was the
\* all-null object.
ClientSubmitLabel(hdr, label) ==
    /\ pc[1] = "done" /\ resp[1].op = "next" /\ resp[1].status = 200
    /\ resp[1].image # NoImage
    /\ SubmitLabelBegin(1, hdr, resp[1].image.id, label)

\* The labeling loop of one user against a fixed set of images: startup, one
\* login, then get-next-image and submit-label in turn.  The server answers
\* every request it has accepted, hence the fairness condition.
NextLoop ==
    \/ \E fetch \in ManifestFetches : Startup(fetch)
    \/ \E cred \in FullProfileCredentials : issued = {} /\ AuthGoogleBegin(1, cred)
    \/ AuthGoogleInsert(1)
    \/ AuthGoogleRefresh(1)
    \/ \E hdr \in SessionHeaders : ClientNextImage(hdr)
    \/ NextImageUser(1)
    \/ NextImageQuery(1)
    \/ \E hdr \in SessionHeaders, label \in Labels : ClientSubmitLabel(hdr, label)
    \/ SubmitLabelUser(1)
    \/ SubmitLabelImage(1)
    \/ SubmitLabelSubmission(1)
    \/ SubmitLabelCommit(1)

SpecLoop == Init /\ [][NextLoop]_vars /\ WF_vars(NextLoop)

\* ------------------------------------------------------------- properties
Protected == {"me", "next", "submit"}

Done(p, op) == pc[p] = "done" /\ resp[p].op = op

\* C1: after successful login exchanges for a subject, run one after another
\* or interleaved, the users table holds exactly one row with that subject
\* (and never more than one row for any subject).
C1_OneUserRowPerSubject ==
    /\ \A s \in Subjects : Cardinality(UsersBySub(s)) <= 1
    /\ \A p \in Procs :
          (Done(p, "auth_google") /\ resp[p].status = 200)
              => Cardinality(UsersBySub(resp[p].user.sub)) = 1

\* Two login exchanges for the same subject have both succeeded.
C1_Witness ==
    /\ Done(1, "auth_google") /\ resp[1].status = 200
    /\ Done(2, "auth_google") /\ resp[2].status = 200
    /\ resp[1].user.sub = resp[2].user.sub
    /\ Cardinality(UsersBySub(resp[1].user.sub)) = 1

\* A login that lost the insert race: lookup, failed INSERT, re-read (and
\* refresh once finished).
LostRace(p) ==
    /\ loc[p].op = "auth_google"
    /\ \/ pc[p] = "ag_reread"
       \/ pc[p] = "ag_refresh" /\ loc[p].dbOps = 3
       \/ pc[p] = "done" /\ loc[p].dbOps = 4

\* C2: the login whose INSERT hits the uniqueness violation re-reads the row
\* the winner created and completes with {ok, token, user}; no login is ever
\* answered with the violation as an error.
C2_LoserRecovers ==
    \A p \in Procs :
        /\ resp[p].op = "auth_google" => resp[p].status \in {200, 400, 401}
        /\ pc[p] = "ag_reread" => Scalar(UsersBySub(loc[p].sub)) = "one"
        /\ (LostRace(p) /\ pc[p] = "ag_refresh")
              => \E u \in users : u.id = TheRow(loc[p].user).id /\ u.sub = loc[p].sub
        /\ (LostRace(p) /\ pc[p] = "done")
              => /\ resp[p].status = 200
                 /\ resp[p].token # {}
                 /\ TheRow(resp[p].token).sub = resp[p].user.sub
                 /\ Scalar(UsersBySub(resp[p].user.sub)) = "one"

\* A login that lost the race has been answered.
C2_Witness ==
    \E p \in Procs : LostRace(p) /\ pc[p] = "done" /\ resp[p].status = 200

\* C3: at most one label_submissions row per (image id, user id), whatever
\* the interleaving of submit-label requests.
C3_OneSubmissionPerPair ==
    \A i \in RequestImageIds : \A u \in users :
        Cardinality(SubmissionsFor(i, u.id)) <= 1

\* Two requests raced on a pair: one has inserted its row, the other was
\* stopped by the constraint.
C3_Witness ==
    \E p, q \in Procs :
        /\ p # q
        /\ Done(p, "submit") /\ resp[p].status = 500
        /\ Done(q, "submit") /\ resp[q].status = 200
        /\ \E u \in users : Cardinality(SubmissionsFor(resp[q].image_id, u.id)) = 1

\* C4: a submit-label request for an existing image by an existing user ends
\* with exactly one row for the pair, holding the submitted label: the first
\* submission inserts the row, a later one updates that row in place.
C4_UpsertKeepsOneRowWithLatestLabel ==
    [][\A p \in Procs :
          (pc[p] = "sl_commit" /\ pc'[p] # "sl_commit") =>
              LET uid == TheRow(loc[p].user).id
                  old == SubmissionsFor(loc[p].image_id, uid)
                  new == {s \in subs' : s.image_id = loc[p].image_id /\ s.user_id = uid}
              IN /\ resp'[p].status = 200
                 /\ resp'[p].image_id = loc[p].image_id
                 /\ resp'[p].label = loc[p].label
                 /\ Cardinality(new) = 1
                 /\ TheRow(new).label = loc[p].label
                 /\ old # {} => /\ TheRow(new).id = TheRow(old).id
                                /\ Cardinality(subs') = Cardinality(subs)
                 /\ old = {} => Cardinality(subs') = Cardinality(subs) + 1
      ]_vars

\* A second submission, with another label, is at its commit: the pair has a
\* row from the first one.
C4_Witness ==
    /\ pc[1] = "sl_commit"
    /\ loc[1].submission # {}
    /\ TheRow(loc[1].submission).label # loc[1].label
    /\ Cardinality(subs) > 1

\* C5: get-next-image never returns an image for which a submission of the
\* same user exists when the query runs.
C5_NextImageIsUnlabeled ==
    [][\A p \in Procs :
          (pc[p] = "next_query" /\ pc'[p] = "done" /\ resp'[p].image.id # NULL) =>
              /\ resp'[p].image.id \in {i.id : i \in images}
              /\ SubmissionsFor(resp'[p].image.id, TheRow(loc[p].user).id) = {}
      ]_vars

\* A user with a submission for IMG_1 has been given IMG_2, while another
\* user has labeled IMG_2.
C5_Witness ==
    /\ Done(1, "next") /\ resp[1].image.id = "IMG_2"
    /\ \E u, v \in users :
          /\ u # v
          /\ SubmissionsFor("IMG_1", u.id) # {} /\ SubmissionsFor("IMG_2", u.id) = {}
          /\ SubmissionsFor("IMG_2", v.id) # {}

\* C6: when the user has a submission for every image (none at all included),
\* get-next-image answers 200 with the all-null object, not an error.
C6_ExhaustedIsSentinel ==
    [][\A p \in Procs :
          (pc[p] = "next_query" /\ pc'[p] # "next_query"
             /\ \A i \in images : SubmissionsFor(i.id, TheRow(loc[p].user).id) # {}) =>
              /\ pc'[p] = "done"
              /\ resp'[p].status = 200
              /\ resp'[p].image = NoImage
      ]_vars

\* The sentinel was returned to a user who has labeled both images.
C6_Witness ==
    /\ Done(1, "next") /\ resp[1].status = 200 /\ resp[1].image = NoImage
    /\ Cardinality(images) = 2
    /\ \E u \in users : \A i \in images : SubmissionsFor(i.id, u.id) # {}

\* The sentinel was returned with an empty image table.
C6_WitnessEmpty ==
    Done(1, "next") /\ resp[1].status = 200 /\ resp[1].image = NoImage /\ images = {}

\* The lifetime in clock ticks.
LifetimeTicks == JWT_EXPIRE * TicksPerSecond

Accepted(token) == verify_jwt(token, now).ok
Expired(token) == verify_jwt(token, now).detail = "Token expired"

\* C7 as stated: a token issued at T is accepted at every time strictly
\* before T + L and rejected as expired at every time after T + L.
C7_AsClaimed ==
    \A i \in issued :
        /\ now < i.at + LifetimeTicks => Accepted(i.token)
        /\ now > i.at + LifetimeTicks => Expired(i.token)

\* C7 (amended): a token issued at T is accepted at every time strictly before
\* T + L and rejected as expired at every time from T + L + 1 second on (its
\* exp is in whole seconds, so it is still accepted until the second in which
\* T + L falls is over); an expired token stays expired.
C7_ExpiryInWholeSeconds ==
    /\ [](\A i \in issued :
            /\ now < i.at + LifetimeTicks => Accepted(i.token)
            /\ now >= i.at + LifetimeTicks + TicksPerSecond => Expired(i.token))
    /\ [][\A i \in issued : Expired(i.token) => Expired(i.token)']_vars

\* A token was presented after its last second and answered "Token expired",
\* and a token is past T + L and still accepted.
C7_Witness ==
    /\ Done(1, "me") /\ resp[1].status = 401 /\ resp[1].detail = "Token expired"
    /\ \E i \in issued : now >= i.at + LifetimeTicks + TicksPerSecond /\ Expired(i.token)
    /\ \E i \in issued : now > i.at + LifetimeTicks /\ Accepted(i.token)

\* Header inputs that are missing, carry another scheme or carry no token.
NotBearerToken ==
    {{}} \cup {{h} : h \in UNION {MalformedHeaders(tok) : tok \in IssuedTokens \cup {Garbage}}}

\* C8: a protected request whose Authorization header is missing, has a
\* scheme other than Bearer or carries no token is rejected without verify_jwt
\* being called and without any round trip to the database.
C8_RejectedBeforeVerifyAndLookup ==
    /\ \A hdr \in NotBearerToken :
          LET auth == get_current_user_payload(hdr, now) IN
          ~auth.ok /\ ~auth.verified /\ auth.status \in {401, 422}
    /\ \A p \in Procs :
          (pc[p] = "done" /\ resp[p].op \in Protected /\ ~loc[p].verified)
              => resp[p].status \in {401, 422} /\ loc[p].dbOps = 0
    /\ \A p \in Procs : loc[p].dbOps > 0 /\ loc[p].op \in Protected => loc[p].verified

\* A label submission with a malformed header was rejected although a valid
\* session exists.
C8_Witness ==
    /\ Done(1, "submit") /\ resp[1].detail = "Invalid auth header format"
    /\ ~loc[1].verified /\ loc[1].dbOps = 0
    /\ \E tok \in IssuedTokens : Accepted(tok)
    /\ subs = {}

\* A protected request that the authentication dependency answered.
AuthRejected(p) == pc[p] = "done" /\ resp[p].op \in Protected /\ loc[p].dbOps = 0

\* C9: every protected request with a missing, invalid or expired session
\* token is answered 401 (an absent header included), with a detail that
\* tells expired tokens from invalid ones.
C9_AuthRejectedIs401 ==
    \A p \in Procs :
        AuthRejected(p) =>
            /\ resp[p].status = 401
            /\ resp[p].detail \in {"Token expired", "Invalid token", "Invalid auth header format"}

\* C10: submit-label for an image id without a row is answered 404, and no
\* step of the request up to there changes any table.
C10_UnknownImage404NoWrite ==
    [][\A p \in Procs :
          /\ (pc[p] = "sl_image" /\ pc'[p] # "sl_image"
                /\ loc[p].image_id \notin {i.id : i \in images})
                => /\ pc'[p] = "done"
                   /\ resp'[p].status = 404
                   /\ UNCHANGED dbvars
          /\ (pc'[p] \in {"sl_user", "sl_image"} /\ pc'[p] # pc[p]) => UNCHANGED dbvars
          /\ (pc'[p] = "done" /\ pc[p] # "done" /\ resp'[p].op = "submit"
                /\ resp'[p].status = 404) => UNCHANGED dbvars
      ]_vars

\* An existing user with a submission got 404 for an unknown image id while
\* images exist.
C10_Witness ==
    /\ Done(1, "submit") /\ resp[1].status = 404 /\ loc[1].dbOps = 2
    /\ images # {} /\ subs # {}


\* C11: every label_submissions row references a users row and a test_images
\* row that exist, in every state reached through the API and the seeding job.
C11_SubmissionsReferenceExistingRows ==
    \A s \in subs :
        /\ \E u \in users : u.id = s.user_id
        /\ \E i \in images : i.id = s.image_id

\* Submissions of two users exist, after a restart of the process.
C11_Witness ==
    /\ app = "init"
    /\ Cardinality({s.user_id : s \in subs}) = 2
    /\ Cardinality({s.image_id : s \in subs}) = 2

\* C12: no failure of the manifest fetch or of processing its content is
\* fatal: on a storage that has the tables, startup never ends in failure
\* (and a failed seeding writes no image row).
C12_SeedingNeverFatal ==
    "test_images" \in tables => app # "failed"

\* C13: of two submit-label requests that both found no row for the pair, the
\* one that commits first inserts its row with its label; the other one's
\* INSERT is rejected, nothing is written and its caller gets an error.
C13_RaceOneInsertCommits ==
    [][\A p \in Procs :
          (pc[p] = "sl_commit" /\ pc'[p] # "sl_commit" /\ loc[p].submission = {}) =>
              LET uid == TheRow(loc[p].user).id
                  old == SubmissionsFor(loc[p].image_id, uid)
              IN IF old # {}
                 THEN /\ subs' = subs
                      /\ resp'[p].status >= 400
                 ELSE /\ resp'[p].status = 200
                      /\ \E row \in subs' :
                            /\ subs' = subs \cup {row}
                            /\ row \notin subs
                            /\ row.image_id = loc[p].image_id
                            /\ row.user_id = uid
                            /\ row.label = loc[p].label
      ]_vars

\* Both requests have finished: one answered 200, the other with an error,
\* and the single row holds the label of the one that committed.
C13_Witness ==
    \E p, q \in Procs :
        /\ Done(p, "submit") /\ resp[p].status = 500 /\ loc[p].dbOps = 4
        /\ Done(q, "submit") /\ resp[q].status = 200
        /\ Cardinality(subs) = 1
        /\ \A s \in subs : s.image_id = resp[q].image_id /\ s.label = resp[q].label


\* C14: when the user has unlabeled images, get-next-image returns the one
\* with the smallest id among them (so a repeated call, with no submission of
\* that user in between, returns the same image).
C14_NextImageIsSmallestUnlabeled ==
    [][\A p \in Procs :
          (pc[p] = "next_query" /\ pc'[p] # "next_query") =>
              LET uid == TheRow(loc[p].user).id
                  open == {i \in images : \A s \in subs : ~(s.image_id = i.id /\ s.user_id = uid)}
              IN open # {} =>
                    /\ resp'[p].status = 200
                    /\ \E i \in open : resp'[p].image = ImageView(i)
                    /\ \A j \in open : IdRank(resp'[p].image.id) <= IdRank(j.id)
      ]_vars

\* IMG_1 was returned to a user to whom both images are open, while the other
\* user has labeled IMG_1.
C14_Witness ==
    /\ Done(1, "next") /\ resp[1].image.id = "IMG_1"
    /\ \E u, v \in users :
          /\ u # v
          /\ Cardinality(Unlabeled(u.id)) = 2
          /\ SubmissionsFor("IMG_1", v.id) # {}


\* C15: a login for a subject whose users row exists takes the update branch
\* exactly when some attribute of the token is non-null and differs from the
\* stored one; the update replaces exactly those attributes of that row by the
\* token's values, never puts null over a stored value, leaves id, sub and
\* every other row alone; and the user returned is the row as stored then.
C15_LoginUpdatesChangedNonNullFields ==
    [][\A p \in Procs :
          /\ (pc[p] \in {"idle", "done"} /\ pc'[p] \in {"ag_update", "ag_refresh"}) =>
                \E row \in users :
                    /\ row.sub = loc'[p].sub
                    /\ pc'[p] = "ag_update" <=>
                          \E f \in FieldNames :
                              loc'[p].info[f] # NULL /\ row[f] # loc'[p].info[f]
          /\ (pc[p] = "ag_update" /\ pc'[p] # "ag_update") =>
                \E old \in users, new \in users' :
                    /\ old.sub = loc[p].sub
                    /\ new.id = old.id /\ new.sub = old.sub
                    /\ users' = (users \ {old}) \cup {new}
                    /\ \A f \in FieldNames :
                          /\ new[f] = IF loc[p].info[f] # NULL /\ old[f] # loc[p].info[f]
                                      THEN loc[p].info[f] ELSE old[f]
                          /\ old[f] # NULL => new[f] # NULL
          /\ (pc[p] = "ag_refresh" /\ pc'[p] # "ag_refresh") =>
                /\ users' = users
                /\ resp'[p].status = 200
                /\ \E u \in users : u.sub = loc[p].sub /\ resp'[p].user = UserView(u)
      ]_vars

\* The update has just committed for a token without given_name: the address
\* was replaced and the stored given_name kept.
C15_Witness ==
    /\ pc[1] = "ag_refresh" /\ loc[1].changed = {"email"}
    /\ loc[1].info.given_name = NULL /\ loc[1].info.email = "b@example.com"
    /\ \E u \in users : /\ u.sub = loc[1].sub /\ u.email = "b@example.com"
                        /\ u.given_name = "Ann"


\* C16: a startup whose seeding query can run leaves the image table as it is
\* when it holds a row, and otherwise inserts exactly the entries of the
\* fetched manifest that have both an id and a url (nothing when the fetch
\* fails).
C16_SeedsExactlyCompleteEntriesWhenEmpty ==
    [][\A fetch \in ManifestFetches :
          (Startup(fetch) /\ "test_images" \in tables') =>
              IF images # {} \/ fetch.kind = "error"
              THEN images' = images
              ELSE images' = {ImageView(fetch.images[i]) :
                                 i \in {k \in 1..Len(fetch.images) :
                                           /\ fetch.images[k].id # NULL
                                           /\ fetch.images[k].url # NULL}}
      ]_vars

\* C17: once the startup event has run, the tables of the three models exist.
C17_TablesExistAfterStartup ==
    app # "init" => ModelTables \subseteq tables


\* C19: a submit-label that succeeds for user U and image I leaves every users
\* row, every test_images row and every label_submissions row of another
\* (image, user) pair as it was, and with them the image get-next-image gives
\* to every other user.
C19_SubmitChangesOnlyItsPair ==
    [][\A p \in Procs :
          (pc[p] = "sl_commit" /\ pc'[p] # "sl_commit" /\ resp'[p].status = 200) =>
              LET uid == TheRow(loc[p].user).id
                  Other(s) == ~(s.image_id = loc[p].image_id /\ s.user_id = uid)
              IN /\ users' = users
                 /\ images' = images
                 /\ {s \in subs' : Other(s)} = {s \in subs : Other(s)}
                 /\ \A v \in users : v.id # uid => get_next_image(v.id)' = get_next_image(v.id)
      ]_vars

\* A user replaced their label of an image that another user has labeled
\* differently.
C19_Witness ==
    /\ Done(1, "submit") /\ resp[1].status = 200 /\ loc[1].dbOps = 4
    /\ \E s, t \in subs :
          /\ s.image_id = resp[1].image_id /\ t.image_id = s.image_id
          /\ s.label = resp[1].label
          /\ t.user_id # s.user_id /\ t.label # s.label
    /\ Cardinality(subs) >= 3


\* C18: in the labeling loop over a fixed set of N images, every image the
\* user is given is one they have not labeled (so none is given twice), every
\* submit adds one labeled image, the all-null object is given only when all N
\* are labeled, and the loop always gets to the all-null object.
C18_LoopVisitsEachImageOnceThenSentinel ==
    /\ [][LET Mine(S) == {s.image_id : s \in {t \in S : t.user_id = TheRow(loc[1].user).id}}
          IN /\ (pc[1] = "next_query" /\ pc'[1] # "next_query") =>
                    /\ resp'[1].status = 200
                    /\ IF resp'[1].image = NoImage
                       THEN Mine(subs) = {i.id : i \in images}
                       ELSE /\ resp'[1].image.id \in {i.id : i \in images}
                            /\ resp'[1].image.id \notin Mine(subs)
             /\ (pc[1] = "sl_commit" /\ pc'[1] # "sl_commit") =>
                    /\ resp'[1].status = 200
                    /\ loc[1].image_id \notin Mine(subs)
                    /\ Mine(subs') = Mine(subs) \cup {loc[1].image_id}
             /\ images # {} => images' = images
         ]_vars
    /\ (app = "up") ~> (Done(1, "next") /\ resp[1].image = NoImage)

\* Both images were labeled, IMG_1 first, and the all-null object was given.
C18_Witness ==
    /\ Done(1, "next") /\ resp[1].status = 200 /\ resp[1].image = NoImage
    /\ Cardinality(images) = 2
    /\ \E s, t \in subs : s.image_id = "IMG_1" /\ t.image_id = "IMG_2" /\ s.id < t.id

====
